---------------------------- MODULE Spec2Model ----------------------------
(***************************************************************************)
(* Model of src/msidh.py: the Masked SIDH (M-SIDH) key exchange.           *)
(*                                                                         *)
(* The Sage primitives the file calls (curve groups, isogenies, the Weil   *)
(* pairing, square roots of one, primality) are modelled by what they      *)
(* compute on the group structure:                                         *)
(*   - a curve's group of points is Z/n x Z/n on the two generators        *)
(*     returned by gens(); a point is its coordinate pair <<x, y>>;        *)
(*   - a curve reached from the base curve by a separable isogeny is named *)
(*     by the kernel of that isogeny inside the base curve; a point of the *)
(*     torsion coprime to the degree is named by its unique preimage;      *)
(*   - a Weil pairing value is the exponent of a fixed primitive root of   *)
(*     unity zeta = e(G1, G2);                                             *)
(*   - a j-invariant is named by the kernel of the composite isogeny from  *)
(*     the base curve (equal kernels give equal j-invariants).             *)
(***************************************************************************)
EXTENDS Integers, Sequences, FiniteSets, TLC

VARIABLES mw, ctor, baby, params, sk, pk, recv, res

vars == <<mw, ctor, baby, params, sk, pk, recv, res>>

None == "None"

\* an absent object
NoObject == [absent |-> TRUE]

(***************************************************************************)
(* Bounds of the model.                                                    *)
(***************************************************************************)
MaxMod == 60

(***************************************************************************)
(* Integer arithmetic used by the Sage calls.                              *)
(***************************************************************************)
RECURSIVE gcd(_, _)
gcd(a, b) == IF b = 0 THEN a ELSE gcd(b, a % b)

\* the integer square root of n, found between lo and hi
RECURSIVE IsqrtBetween(_, _, _)
IsqrtBetween(n, lo, hi) ==
    IF lo >= hi THEN lo
    ELSE LET mid == (lo + hi + 1) \div 2
         IN IF mid <= n \div mid THEN IsqrtBetween(n, mid, hi)
            ELSE IsqrtBetween(n, lo, mid - 1)

isqrt(n) == IsqrtBetween(n, 0, n)

is_prime(n) == n >= 2 /\ \A d \in 2..isqrt(n) : n % d # 0

RECURSIVE PrimePowerPart(_, _)
PrimePowerPart(q, n) == IF n % q = 0 THEN q * PrimePowerPart(q, n \div q) ELSE 1

\* the prime-power factors q^k of n, as factor(n) lists them
PrimePowerFactors(n) ==
    { PrimePowerPart(q, n) : q \in { d \in 2..n : n % d = 0 /\ is_prime(d) } }

IsPrimePower(n) == n >= 2 /\ Cardinality(PrimePowerFactors(n)) = 1

RECURSIVE SumOver(_, _)
SumOver(S, F) ==
    IF S = {} THEN 0
    ELSE LET m == CHOOSE m \in S : TRUE IN F[m] + SumOver(S \ {m}, F)

RECURSIVE SortedSeq(_)
SortedSeq(S) ==
    IF S = {} THEN << >>
    ELSE LET m == CHOOSE m \in S : \A o \in S : m <= o
         IN <<m>> \o SortedSeq(S \ {m})

(***************************************************************************)
(* IntegerModRing(b).square_roots_of_one(), which one.sqrt(all=True)       *)
(* returns for the element one: the prime-power case is written out, a     *)
(* composite modulus is reduced to its prime-power factors and the roots   *)
(* are combined with the CRT basis.                                        *)
(***************************************************************************)
SqrtOnePrimePower(n) ==
    IF n % 2 = 0
    THEN IF n = 2 THEN {1}
         ELSE IF n = 4 THEN {1, 3}
         ELSE {1, n - 1, (n \div 2) - 1, (n \div 2) + 1}
    ELSE {1, n - 1}

CRTBasis(moduli, n) ==
    [ m \in moduli |->
        CHOOSE e \in 0..(n - 1) : e % m = 1 % m /\ e % (n \div m) = 0 ]

\* a sampler that knows only the two trivial roots
SqrtOnePlusMinus(n) == SortedSeq({1 % n, n - 1})

SqrtOneAll(n) ==
    IF IsPrimePower(n) THEN SortedSeq(SqrtOnePrimePower(n))
    ELSE LET moduli == PrimePowerFactors(n)
             basis  == CRTBasis(moduli, n)
             roots  == UNION { SqrtOnePrimePower(m) : m \in moduli }
             picks  == { x \in [moduli -> roots] :
                            \A m \in moduli : x[m] \in SqrtOnePrimePower(m) }
         IN SortedSeq({ SumOver(moduli, [m \in moduli |-> basis[m] * x[m]]) % n
                          : x \in picks })

\* a sampler whose result is off by one
mewtwoOffByOne(b, rand) == (SqrtOneAll(b)[rand + 1] + 1) % b

\* mewtwo(b) with randrange(l) returning rand
mewtwo(b, rand) == SqrtOneAll(b)[rand + 1]

mewtwoChoices(b) == 0..(Len(SqrtOneAll(b)) - 1)

\* assert res ** 2 == 1, in the ring of integers modulo b
mewtwoAssert(b, x) == (x * x) % b = 1 % b

(***************************************************************************)
(* Curves and points.  A curve is [ss, n, ker]: whether it is              *)
(* supersingular, the order n of each of its two generators, and the       *)
(* kernel (a set of base-curve coordinate pairs) of the isogeny that       *)
(* reaches it from the base curve.  A point is [E, xy].                    *)
(***************************************************************************)
Origin == <<0, 0>>

BaseCurve(ss, n) == [ss |-> ss, n |-> n, ker |-> {Origin}]

Point(E, x, y) == [E |-> E, xy |-> <<x % E.n, y % E.n>>]

\* E(0, 1, 0)
Identity(E) == Point(E, 0, 0)

\* E.gens()
gens(E) == << Point(E, 1, 0), Point(E, 0, 1) >>

\* k * P
smul(k, P) == Point(P.E, k * P.xy[1], k * P.xy[2])

\* P + Q
padd(P, Q) == Point(P.E, P.xy[1] + Q.xy[1], P.xy[2] + Q.xy[2])

\* P.order()
order(P) == P.E.n \div gcd(P.E.n, gcd(P.xy[1], P.xy[2]))

\* P.xy() divides by the projective z coordinate, which is 0 at the identity
xyRaises(P) == P = Identity(P.E)

\* curve.is_on_curve(x, y) on the affine coordinates of P
is_on_curve(E, P) == P.E = E

(***************************************************************************)
(* MSIDH_Parameters.verify_parameters: the checks in source order.  The    *)
(* result is [ret, raised, step]: the value returned ("None" when a call   *)
(* raised), the exception, and the number of the check that ended it       *)
(* (10 when every check passed).                                           *)
(***************************************************************************)
BandLow == 1000
BandHigh == 100000

\* math.sqrt(p) * 10e-4 <= x, on integers: p <= (1000 x)^2
BandLower(x, p) == x > 0 /\ (x > 46 \/ p <= BandLow * BandLow * x * x)

\* x <= math.sqrt(p) * 10e4, on integers: x^2 <= (10^5)^2 p
BandUpper(x, p) ==
    LET u == x \div BandHigh
    IN IF x <= 0 \/ (u + 1) * (u + 1) <= p THEN TRUE
       ELSE IF u * u > p THEN FALSE
       ELSE x * x <= BandHigh * BandHigh * p

InBand(x, p) == BandLower(x, p) /\ BandUpper(x, p)

VerifyResult(ret, raised, step) == [ret |-> ret, raised |-> raised, step |-> step]

verify_parameters(self) ==
    LET p == self.p
        A == self.A
        B == self.B
        f == self.f
        curve == self.E0
        PA == self.PA
        QA == self.QA
        PB == self.PB
        QB == self.QB
    IN IF ~curve.ss THEN VerifyResult("False", None, 1)
       ELSE IF ~is_prime(p) THEN VerifyResult("False", None, 2)
       ELSE IF ~(p = A * B * f - 1) THEN VerifyResult("False", None, 3)
       ELSE IF ~(InBand(A, p) /\ InBand(B, p)) THEN VerifyResult("False", None, 4)
       ELSE IF ~(gcd(A, B) = 1) THEN VerifyResult("False", None, 5)
       ELSE IF xyRaises(PA) \/ xyRaises(QA) \/ xyRaises(PB) \/ xyRaises(QB)
            THEN VerifyResult(None, "ZeroDivisionError", 6)
       ELSE IF ~(is_on_curve(curve, PA) /\ is_on_curve(curve, QA)
                 /\ is_on_curve(curve, PB) /\ is_on_curve(curve, QB))
            THEN VerifyResult("False", None, 6)
       ELSE IF ~(order(PA) = A /\ order(QA) = A /\ order(PB) = B /\ order(QB) = B)
            THEN VerifyResult("False", None, 7)
       ELSE IF ~(PA # QA /\ PB # QB) THEN VerifyResult("False", None, 8)
       ELSE IF PA = Identity(curve) \/ QA = Identity(curve)
               \/ PB = Identity(curve) \/ QB = Identity(curve)
            THEN VerifyResult("False", None, 9)
       ELSE VerifyResult("True", None, 10)

(***************************************************************************)
(* MSIDH_Parameters.__init__: stores the arguments, derives the two        *)
(* torsion bases from the generators and verifies.  The result is          *)
(* [status, err, vp, self]: "ok" or "raised" with the exception, what      *)
(* verify_parameters did, and the attributes the call stored on self.      *)
(***************************************************************************)
\* the basis with the two generators taken in the other order
BasisASwapped(E0, f, B) ==
    << smul(f, smul(B, gens(E0)[2])), smul(f, smul(B, gens(E0)[1])) >>

BasisA(E0, f, B) == << smul(f, smul(B, gens(E0)[1])), smul(f, smul(B, gens(E0)[2])) >>

BasisB(E0, f, A) == << smul(f, smul(A, gens(E0)[1])), smul(f, smul(A, gens(E0)[2])) >>

MSIDH_Parameters(lamb, f, p, E0, A, B) ==
    LET self == [lamb |-> lamb, f |-> f, p |-> p, E0 |-> E0, A |-> A, B |-> B,
                 PA |-> BasisA(E0, f, B)[1], QA |-> BasisA(E0, f, B)[2],
                 PB |-> BasisB(E0, f, A)[1], QB |-> BasisB(E0, f, A)[2]]
        vp == verify_parameters(self)
    IN IF vp.raised # None
       THEN [status |-> "raised", err |-> vp.raised, vp |-> vp, self |-> self]
       ELSE IF vp.ret = "False"
       THEN [status |-> "raised", err |-> "Invalid parameters", vp |-> vp, self |-> self]
       ELSE [status |-> "ok", err |-> None, vp |-> vp, self |-> self]

\* the object the caller of a constructor gets: none when the call raised
Returned(out) == IF out.status = "ok" THEN out.self ELSE NoObject

(***************************************************************************)
(* MSIDHpBaby.__init__(f).  The call stack is explicit: a frame is         *)
(* [f, A, B, p, pc]; pc = "test" is line 231, pc = "resume" is a frame     *)
(* whose recursive call on line 232 is in progress or has returned.        *)
(***************************************************************************)
BabyLamb == 1
BabyT == 2
MaxStartF == 40
MaxCofactor == 50

RECURSIVE NextPrime(_)
NextPrime(n) == IF is_prime(n) THEN n ELSE NextPrime(n + 1)

\* Primes().unrank(i)
RECURSIVE unrank(_)
unrank(i) == IF i = 0 THEN 2 ELSE NextPrime(unrank(i - 1) + 1)

\* primes_list[i] for i in range(t)
primes_list(lamb, i) ==
    IF i < lamb THEN unrank(i) * unrank(i) * unrank(i) ELSE unrank(i)

RECURSIVE prod(_, _)
prod(S, F) ==
    IF S = {} THEN 1
    ELSE LET m == CHOOSE m \in S : TRUE IN F[m] * prod(S \ {m}, F)

\* prod(primes_list[::2]) and prod(primes_list[1::2])
BabyA(lamb, t) ==
    prod({ i \in 0..(t - 1) : i % 2 = 0 }, [i \in 0..(t - 1) |-> primes_list(lamb, i)])

BabyB(lamb, t) ==
    prod({ i \in 0..(t - 1) : i % 2 = 1 }, [i \in 0..(t - 1) |-> primes_list(lamb, i)])

\* lines 206-230 of a call with cofactor f
BabyFrame(f) ==
    [f |-> f, A |-> BabyA(BabyLamb, BabyT), B |-> BabyB(BabyLamb, BabyT),
     p |-> BabyA(BabyLamb, BabyT) * BabyB(BabyLamb, BabyT) * f - 1, pc |-> "test"]

\* the characteristic of FiniteField((p, 2)) when p is a prime power
PrimeBase(p) == CHOOSE q \in 2..p : is_prime(q) /\ p % q = 0

\* EllipticCurve(F, [1, 0]) over the field with p^2 elements: y^2 = x^3 + x is
\* supersingular exactly in characteristic 3 mod 4, and then its group over
\* that field is Z/(p+1) x Z/(p+1)
CurveY2X3X(p) == BaseCurve(PrimeBase(p) % 4 = 3, p + 1)

\* lines 234-240 of a frame: field, curve, the assertion, super().__init__
BabyFinish(fr) ==
    IF ~IsPrimePower(fr.p)
    THEN [status |-> "raised", err |-> "ValueError", self |-> NoObject]
    ELSE IF PrimeBase(fr.p) = 2
    THEN [status |-> "raised", err |-> "ArithmeticError", self |-> NoObject]
    ELSE IF ~CurveY2X3X(fr.p).ss
    THEN [status |-> "raised", err |-> "AssertionError", self |-> NoObject]
    ELSE LET out == MSIDH_Parameters(BabyLamb, fr.f, fr.p, CurveY2X3X(fr.p), fr.A, fr.B)
         IN [status |-> out.status, err |-> out.err, self |-> out.self]

(***************************************************************************)
(* Isogenies and the Weil pairing.                                         *)
(***************************************************************************)
\* the cyclic subgroup generated by the coordinate pair xy modulo n
Cyclic(xy, n) == { <<(k * xy[1]) % n, (k * xy[2]) % n>> : k \in 0..(n - 1) }

SubgroupSum(G, H, n) ==
    { <<(u[1] + v[1]) % n, (u[2] + v[2]) % n>> : u \in G, v \in H }

\* E.isogeny(K, algorithm="factored"): the kernel generator must lie on E,
\* and the coordinates of a point of another curve do not satisfy the
\* equation of E
isogeny(E, K) ==
    IF K.E # E THEN [err |-> "ValueError", domain |-> E, kernel |-> {}]
    ELSE [err |-> None, domain |-> E, kernel |-> Cyclic(K.xy, E.n)]

\* phi.codomain()
codomain(phi) ==
    [ss |-> phi.domain.ss, n |-> phi.domain.n,
     ker |-> SubgroupSum(phi.domain.ker, phi.kernel, phi.domain.n)]

\* phi(P), for P of order coprime to the degree of phi
image(phi, P) == [E |-> codomain(phi), xy |-> P.xy]

\* E.j_invariant()
j_invariant(E) == [j |-> E.ker]

\* the degree of the isogeny from the base curve to E
degree(E) == Cardinality(E.ker)

\* P.weil_pairing(Q, n): [err, val], val the exponent of zeta.  It raises
\* unless P and Q lie on one curve and n*P = n*Q = 0.  On the curve E reached
\* by an isogeny of degree d, e_n(phi(P), phi(Q)) = e_n(P, Q)^d.
weil_pairing(P, Q, n) ==
    IF P.E # Q.E \/ smul(n, P) # Identity(P.E) \/ smul(n, Q) # Identity(Q.E)
       \/ P.E.n % n # 0
    THEN [err |-> "ValueError", val |-> 0]
    ELSE LET k == P.E.n \div n
             det == P.xy[1] * Q.xy[2] - Q.xy[1] * P.xy[2]
         IN [err |-> None, val |-> (degree(P.E) * (det \div k)) % P.E.n]

\* w ** e in the group of roots of unity, for a pairing value on a curve of
\* generator order n
pairing_pow(w, e, n) == [err |-> w.err, val |-> (w.val * e) % n]

(***************************************************************************)
(* MSIDH_Party_A.  A private key is <<alpha, a>>, a public key is          *)
(* <<curve, R, S>>.  compute_shared_secret gives [status, err, p1, p2,     *)
(* psi, value]: "returned" with the j-invariant, or "raised" with the      *)
(* exception; psi tells whether the isogeny was built.                     *)
(***************************************************************************)
SecretResult(status, err, p1, p2, psi, value) ==
    [status |-> status, err |-> err, p1 |-> p1, p2 |-> p2, psi |-> psi,
     value |-> value]

\* the steps after the pairing check: lines 291-293 and 331-333
DeriveSecret(private_key, other_public_key, p1, p2) ==
    LET L == padd(other_public_key[2], smul(private_key[2], other_public_key[3]))
        psi == isogeny(other_public_key[1], L)
    IN IF psi.err # None
       THEN SecretResult("raised", psi.err, p1, p2, FALSE, NoObject)
       ELSE SecretResult("returned", None, p1, p2, TRUE, j_invariant(codomain(psi)))

\* the same steps with the assertion stripped
UncheckedSecret(private_key, other_public_key, p1, p2) ==
    DeriveSecret(private_key, other_public_key, p1, p2)

\* the steps from the pairing values on: the assertion, then the derivation
CheckedSecret(private_key, other_public_key, p1, p2) ==
    IF p1.err # None THEN SecretResult("raised", p1.err, p1, p2, FALSE, NoObject)
    ELSE IF p2.err # None THEN SecretResult("raised", p2.err, p1, p2, FALSE, NoObject)
    ELSE IF p1 # p2 THEN SecretResult("raised", "AssertionError", p1, p2, FALSE, NoObject)
    ELSE DeriveSecret(private_key, other_public_key, p1, p2)

\* a scalar drawn from 1..A instead of 0..A-1
A_generate_private_key_OffByOne(pr, rand1, rand2) == << mewtwo(pr.B, rand1), rand2 + 1 >>

A_generate_private_key(pr, rand1, rand2) == << mewtwo(pr.B, rand1), rand2 >>

\* the kernel generator built as QA + a * PA
A_compute_public_key_SwappedKernel(pr, private_key) ==
    LET KA == padd(pr.QA, smul(private_key[2], pr.PA))
        phiA == isogeny(pr.E0, KA)
    IN << codomain(phiA), smul(private_key[1], image(phiA, pr.PB)),
          smul(private_key[1], image(phiA, pr.QB)) >>

A_compute_public_key(pr, private_key) ==
    LET KA == padd(pr.PA, smul(private_key[2], pr.QA))
        phiA == isogeny(pr.E0, KA)
    IN << codomain(phiA), smul(private_key[1], image(phiA, pr.PB)),
          smul(private_key[1], image(phiA, pr.QB)) >>

\* the check taken on the peer's degree and basis with the own degree as exponent
A_compute_shared_secret_PeerShape(pr, private_key, other_public_key) ==
    LET Ra == other_public_key[2]
        Sa == other_public_key[3]
        p1 == weil_pairing(Ra, Sa, pr.B)
        p2 == pairing_pow(weil_pairing(pr.PB, pr.QB, pr.B), pr.A, pr.E0.n)
    IN CheckedSecret(private_key, other_public_key, p1, p2)

A_compute_shared_secret(pr, private_key, other_public_key) ==
    LET Ra == other_public_key[2]
        Sa == other_public_key[3]
        p1 == weil_pairing(Ra, Sa, pr.A)
        p2 == pairing_pow(weil_pairing(pr.PA, pr.QA, pr.A), pr.B, pr.E0.n)
    IN CheckedSecret(private_key, other_public_key, p1, p2)

(***************************************************************************)
(* MSIDH_Party_B, the mirror image.                                        *)
(***************************************************************************)
B_generate_private_key(pr, rand1, rand2) == << mewtwo(pr.A, rand1), rand2 >>

B_compute_public_key(pr, private_key) ==
    LET KB == padd(pr.PB, smul(private_key[2], pr.QB))
        phiB == isogeny(pr.E0, KB)
    IN << codomain(phiB), smul(private_key[1], image(phiB, pr.PA)),
          smul(private_key[1], image(phiB, pr.QA)) >>

\* the reference value without its exponent
B_compute_shared_secret_NoExponent(pr, private_key, other_public_key) ==
    LET Rb == other_public_key[2]
        Sb == other_public_key[3]
        p1 == weil_pairing(Rb, Sb, pr.B)
        p2 == weil_pairing(pr.PB, pr.QB, pr.B)
    IN CheckedSecret(private_key, other_public_key, p1, p2)

B_compute_shared_secret(pr, private_key, other_public_key) ==
    LET Rb == other_public_key[2]
        Sb == other_public_key[3]
        p1 == weil_pairing(Rb, Sb, pr.B)
        p2 == pairing_pow(weil_pairing(pr.PB, pr.QB, pr.B), pr.A, pr.E0.n)
    IN CheckedSecret(private_key, other_public_key, p1, p2)

(***************************************************************************)
(* State.                                                                  *)
(*   mw     the last mewtwo call: [b, res]                                 *)
(*   ctor   the last MSIDH_Parameters construction: [args, out]            *)
(*   baby   the MSIDHpBaby call: [stack, status, err, self]                *)
(*   params the parameter object shared by the two parties                 *)
(*   sk, pk the private and public key each party computed                 *)
(*   recv   the public key handed to each party                            *)
(*   res    what each party's compute_shared_secret did                    *)
(***************************************************************************)
Parties == {"A", "B"}

NoCall == [b |-> 0, res |-> 0, err |-> None]
NoCtor == [args |-> NoObject, out |-> NoObject]
NoBaby == [stack |-> << >>, status |-> "idle", err |-> None, self |-> NoObject]
NoKey == << >>
NoKeys == [x \in Parties |-> NoKey]
NoResults == [x \in Parties |-> NoObject]

ProtocolIdle ==
    /\ params = NoObject
    /\ sk = NoKeys
    /\ pk = NoKeys
    /\ recv = NoKeys
    /\ res = NoResults

(***************************************************************************)
(* mewtwo called on a modulus b.                                           *)
(***************************************************************************)
Mewtwo ==
    \E b \in 2..MaxMod : \E rand \in mewtwoChoices(b) :
        /\ mw' = [b |-> b, res |-> mewtwo(b, rand),
                  err |-> IF mewtwoAssert(b, mewtwo(b, rand)) THEN None
                          ELSE "AssertionError"]
        /\ UNCHANGED <<ctor, baby, params, sk, pk, recv, res>>

InitMewtwo == mw = NoCall /\ ctor = NoCtor /\ baby = NoBaby /\ ProtocolIdle

SpecMewtwo == InitMewtwo /\ [][Mewtwo]_vars

(***************************************************************************)
(* MSIDH_Parameters constructed on caller-chosen arguments.                *)
(***************************************************************************)
MaxDeg == 4
MaxF == 2

\* a prime just above the lower band edge for degree 1
FarPrime == 1000003

Args(f, p, ss, n, A, B) ==
    [lamb |-> 1, f |-> f, p |-> p, E0 |-> BaseCurve(ss, n), A |-> A, B |-> B]

\* every small argument tuple, each with a curve whose generators have order
\* p + 1, p - 1 or A * B * f, and one tuple whose degree A lies below the band
CtorArgs ==
    { Args(t[1], t[2], t[3], t[4], t[5], t[6]) :
        t \in { u \in (1..MaxF) \X (2..(MaxDeg * MaxDeg * MaxF)) \X BOOLEAN
                     \X (2..(MaxDeg * MaxDeg * MaxF + 1)) \X (1..MaxDeg) \X (1..MaxDeg) :
                  u[4] \in {u[2] + 1, u[2] - 1, u[5] * u[6] * u[1]} } }
    \cup { Args(1, FarPrime, TRUE, FarPrime + 1, 1, FarPrime + 1) }

Construct ==
    /\ ctor = NoCtor
    /\ \E a \in CtorArgs :
        ctor' = [args |-> a, out |-> MSIDH_Parameters(a.lamb, a.f, a.p, a.E0, a.A, a.B)]
    /\ UNCHANGED <<mw, baby, params, sk, pk, recv, res>>

InitParams == mw = NoCall /\ ctor = NoCtor /\ baby = NoBaby /\ ProtocolIdle

SpecParams == InitParams /\ [][Construct]_vars

(***************************************************************************)
(* MSIDHpBaby(f) called by a caller.                                       *)
(***************************************************************************)
Top(stack) == stack[Len(stack)]

Pop(stack) == SubSeq(stack, 1, Len(stack) - 1)

\* the caller's call: lines 206-230 of the first frame
BabyCall ==
    /\ baby.status = "idle"
    /\ \E f \in 1..MaxStartF :
         baby' = [stack |-> <<BabyFrame(f)>>, status |-> "running",
                  err |-> None, self |-> NoObject]
    /\ UNCHANGED <<mw, ctor, params, sk, pk, recv, res>>

\* lines 231-232: p is not prime, the frame calls self.__init__(f + 1)
BabyRetry ==
    /\ baby.status = "running"
    /\ Top(baby.stack).pc = "test"
    /\ ~is_prime(Top(baby.stack).p)
    /\ Top(baby.stack).f + 1 <= MaxCofactor
    /\ baby' = [baby EXCEPT !.stack =
                    Pop(baby.stack)
                    \o << [Top(baby.stack) EXCEPT !.pc = "resume"],
                          BabyFrame(Top(baby.stack).f + 1) >>]
    /\ UNCHANGED <<mw, ctor, params, sk, pk, recv, res>>

\* lines 234-240 of the top frame: reached when p is prime, and when the
\* recursive call of line 232 has returned.  An exception leaves every frame;
\* a normal return hands control back to the calling frame.
BabyBuild ==
    /\ baby.status = "running"
    /\ \/ Top(baby.stack).pc = "test" /\ is_prime(Top(baby.stack).p)
       \/ Top(baby.stack).pc = "resume"
    /\ LET out == BabyFinish(Top(baby.stack))
           self == IF out.self = NoObject THEN baby.self ELSE out.self
       IN baby' = IF out.status = "raised"
                  THEN [stack |-> << >>, status |-> "raised", err |-> out.err,
                        self |-> self]
                  ELSE [stack |-> Pop(baby.stack),
                        status |-> IF Len(baby.stack) = 1 THEN "ok" ELSE "running",
                        err |-> None, self |-> self]
    /\ UNCHANGED <<mw, ctor, params, sk, pk, recv, res>>

InitBaby == mw = NoCall /\ ctor = NoCtor /\ baby = NoBaby /\ ProtocolIdle

NextBaby == BabyCall \/ BabyRetry \/ BabyBuild

SpecBaby == InitBaby /\ [][NextBaby]_vars

(***************************************************************************)
(* The exchange: one validated parameter object shared by a party of each  *)
(* role; a caller has each party generate a private key, compute its       *)
(* public key, and hands each party a public key, which is the peer's or   *)
(* the peer's with one component replaced; each party then computes the    *)
(* shared secret.                                                          *)
(***************************************************************************)
MaxGroup == 24

Other(X) == IF X = "A" THEN "B" ELSE "A"

OwnDegree(pr, X) == IF X = "A" THEN pr.A ELSE pr.B
PeerDegree(pr, X) == IF X = "A" THEN pr.B ELSE pr.A
OwnBasis(pr, X) == IF X = "A" THEN <<pr.PA, pr.QA>> ELSE <<pr.PB, pr.QB>>
PeerBasis(pr, X) == IF X = "A" THEN <<pr.PB, pr.QB>> ELSE <<pr.PA, pr.QA>>

\* the parameter objects whose construction succeeds, over the supersingular
\* curve with generators of order p + 1 = A * B * f, up to MaxGroup
ValidParameterSets ==
    { Returned(out) :
        out \in { o \in { MSIDH_Parameters(1, t[3], t[1] * t[2] * t[3] - 1,
                                           BaseCurve(TRUE, t[1] * t[2] * t[3]),
                                           t[1], t[2]) :
                            t \in { u \in (1..MaxGroup) \X (1..MaxGroup) \X (1..MaxGroup) :
                                      u[1] * u[2] * u[3] <= MaxGroup } } :
                   o.status = "ok" } }

generate_private_key(X, pr, rand1, rand2) ==
    IF X = "A" THEN A_generate_private_key(pr, rand1, rand2)
    ELSE B_generate_private_key(pr, rand1, rand2)

compute_public_key(X, pr, private_key) ==
    IF X = "A" THEN A_compute_public_key(pr, private_key)
    ELSE B_compute_public_key(pr, private_key)

compute_shared_secret(X, pr, private_key, other_public_key) ==
    IF X = "A" THEN A_compute_shared_secret(pr, private_key, other_public_key)
    ELSE B_compute_shared_secret(pr, private_key, other_public_key)

\* the points of E killed by n
Torsion(E, n) ==
    { Point(E, x, y) : x \in { k * (E.n \div n) : k \in 0..(n - 1) },
                       y \in { k * (E.n \div n) : k \in 0..(n - 1) } }

\* the curves reached from E0 by an isogeny with a cyclic kernel of order n
Codomains(E0, n) ==
    { codomain(isogeny(E0, K)) : K \in { P \in Torsion(E0, n) : order(P) = n } }

\* key with exactly one component replaced by a different value: another
\* curve of the same degree, or another point of the receiver's torsion
Tampered(pr, X, key) ==
    { <<E, key[2], key[3]>> : E \in Codomains(pr.E0, PeerDegree(pr, X)) \ {key[1]} }
    \cup { <<key[1], R, key[3]>> : R \in Torsion(key[1], OwnDegree(pr, X)) \ {key[2]} }
    \cup { <<key[1], key[2], S>> : S \in Torsion(key[1], OwnDegree(pr, X)) \ {key[3]} }

GeneratePrivateKey(X) ==
    /\ sk[X] = NoKey
    /\ \E rand1 \in mewtwoChoices(PeerDegree(params, X)) :
         \E rand2 \in 0..(OwnDegree(params, X) - 1) :
            sk' = [sk EXCEPT ![X] = generate_private_key(X, params, rand1, rand2)]
    /\ UNCHANGED <<mw, ctor, baby, params, pk, recv, res>>

ComputePublicKey(X) ==
    /\ sk[X] # NoKey
    /\ pk[X] = NoKey
    /\ pk' = [pk EXCEPT ![X] = compute_public_key(X, params, sk[X])]
    /\ UNCHANGED <<mw, ctor, baby, params, sk, recv, res>>

\* the caller hands X the peer's public key unmodified
DeliverHonest(X) ==
    /\ pk[Other(X)] # NoKey
    /\ recv[X] = NoKey
    /\ recv' = [recv EXCEPT ![X] = pk[Other(X)]]
    /\ UNCHANGED <<mw, ctor, baby, params, sk, pk, res>>

\* X is handed the peer's public key with one component replaced.  This
\* happens to at most one of the two keys of a run, the one delivered last:
\* the peer has by then completed its side of an honest run.
DeliverTampered(X) ==
    /\ pk[Other(X)] # NoKey
    /\ recv[X] = NoKey
    /\ sk[X] # NoKey
    /\ recv[Other(X)] = pk[X]
    /\ res[Other(X)] # NoObject
    /\ \E key \in Tampered(params, X, pk[Other(X)]) :
         recv' = [recv EXCEPT ![X] = key]
    /\ UNCHANGED <<mw, ctor, baby, params, sk, pk, res>>

ComputeSharedSecret(X) ==
    /\ sk[X] # NoKey
    /\ recv[X] # NoKey
    /\ res[X] = NoObject
    /\ res' = [res EXCEPT ![X] = compute_shared_secret(X, params, sk[X], recv[X])]
    /\ UNCHANGED <<mw, ctor, baby, params, sk, pk, recv>>

Init ==
    /\ mw = NoCall /\ ctor = NoCtor /\ baby = NoBaby
    /\ params \in ValidParameterSets
    /\ sk = NoKeys /\ pk = NoKeys /\ recv = NoKeys /\ res = NoResults

Next ==
    \E X \in Parties :
        \/ GeneratePrivateKey(X)
        \/ ComputePublicKey(X)
        \/ DeliverHonest(X)
        \/ DeliverTampered(X)
        \/ ComputeSharedSecret(X)

Spec == Init /\ [][Next]_vars

(***************************************************************************)
(* Claims about mewtwo, the constructor and the toy generator.             *)
(***************************************************************************)

\* C7: every value mewtwo(n) returns, for n >= 2, squares to 1 modulo n (the
\* call's own assertion never fails), and the values it can return are
\* exactly the square roots of 1 modulo n, the non-trivial ones included.
C7_MaskingSampler ==
    mw.b # 0 =>
        /\ mw.err = None
        /\ (mw.res * mw.res) % mw.b = 1
        /\ { mewtwo(mw.b, r) : r \in mewtwoChoices(mw.b) }
             = { x \in 0..(mw.b - 1) : (x * x) % mw.b = 1 }

\* a call returned a root other than 1 and -1
C7_Witness ==
    mw.b # 0 /\ mw.err = None /\ mw.res # 1 /\ mw.res # mw.b - 1

\* the nine invariants of a parameter set, stated on the stored attributes
NineInvariants(self) ==
    /\ self.E0.ss
    /\ is_prime(self.p)
    /\ self.p = self.A * self.B * self.f - 1
    /\ InBand(self.A, self.p) /\ InBand(self.B, self.p)
    /\ gcd(self.A, self.B) = 1
    /\ \A P \in {self.PA, self.QA, self.PB, self.QB} : P.E = self.E0
    /\ order(self.PA) = self.A /\ order(self.QA) = self.A
    /\ order(self.PB) = self.B /\ order(self.QB) = self.B
    /\ self.PA # self.QA /\ self.PB # self.QB
    /\ \A P \in {self.PA, self.QA, self.PB, self.QB} : P.xy # Origin

\* C6: construction succeeds exactly when the nine invariants hold, and when
\* one is violated verify_parameters returns False and the constructor
\* raises, so that no object reaches the caller.
C6_ValidationGate ==
    ctor.out # NoObject =>
        /\ ctor.out.status = "ok" <=> NineInvariants(ctor.out.self)
        /\ ~NineInvariants(ctor.out.self) =>
              /\ ctor.out.vp.ret = "False"
              /\ ctor.out.status = "raised"
              /\ Returned(ctor.out) = NoObject

\* C10: construction sets PA = B*f*G1, QA = B*f*G2, PB = A*f*G1 and
\* QB = A*f*G2 on the generators in backend order, and when both generators
\* have order A*B*f, PA and QA have order A and PB and QB have order B.
C10_BasisDerivation ==
    ctor.out # NoObject =>
        LET self == ctor.out.self
            G1 == gens(self.E0)[1]
            G2 == gens(self.E0)[2]
        IN /\ self.PA = smul(self.B * self.f, G1)
           /\ self.QA = smul(self.B * self.f, G2)
           /\ self.PB = smul(self.A * self.f, G1)
           /\ self.QB = smul(self.A * self.f, G2)
           /\ (order(G1) = self.A * self.B * self.f
                 /\ order(G2) = self.A * self.B * self.f)
                => /\ order(self.PA) = self.A /\ order(self.QA) = self.A
                   /\ order(self.PB) = self.B /\ order(self.QB) = self.B

\* a construction succeeded on generators of full order, with a cofactor
C10_Witness ==
    /\ ctor.out # NoObject
    /\ ctor.out.status = "ok"
    /\ ctor.args.f > 1 /\ ctor.args.A > 1 /\ ctor.args.B > 1
    /\ order(gens(ctor.args.E0)[1]) = ctor.args.A * ctor.args.B * ctor.args.f
    /\ order(ctor.out.self.PA) = ctor.args.A

\* C9: a call MSIDHpBaby(f) that ends has retried up to the first cofactor
\* giving a prime and returned a parameter set with p = A*B*f' - 1 prime,
\* also when the starting cofactor gave no prime.
C9_RetryThenSucceeds ==
    baby.status \in {"ok", "raised"} =>
        /\ baby.status = "ok"
        /\ baby.self.p = baby.self.A * baby.self.B * baby.self.f - 1
        /\ is_prime(baby.self.p)

(***************************************************************************)
(* Claims about the exchange.                                              *)
(***************************************************************************)
\* X was handed the peer's public key unmodified
Honest(X) == recv[X] # NoKey /\ recv[X] = pk[Other(X)]

\* X was handed a public key with a component replaced
TamperedAt(X) == recv[X] # NoKey /\ recv[X] # pk[Other(X)]

Done(X) == res[X] # NoObject

\* C1: in an honest run each party's compute_shared_secret returns a value,
\* and the two j-invariants are equal.
C1_HonestAgreement ==
    /\ \A X \in Parties : (Honest(X) /\ Done(X)) => res[X].status = "returned"
    /\ (Honest("A") /\ Honest("B") /\ Done("A") /\ Done("B"))
         => res["A"].value = res["B"].value

\* both parties of an honest run returned, with non-zero scalars
C1_Witness ==
    /\ Honest("A") /\ Honest("B") /\ Done("A") /\ Done("B")
    /\ res["A"].status = "returned" /\ res["B"].status = "returned"
    /\ sk["A"][2] > 1 /\ sk["B"][2] > 1

\* the pairing-consistency check on a received key, for the party of role X:
\* own degree, own basis, the peer's degree as exponent
PairingCheck(pr, X, key) ==
    LET p1 == weil_pairing(key[2], key[3], OwnDegree(pr, X))
        p2 == pairing_pow(weil_pairing(OwnBasis(pr, X)[1], OwnBasis(pr, X)[2],
                                       OwnDegree(pr, X)),
                          PeerDegree(pr, X), pr.E0.n)
    IN p1.err = None /\ p2.err = None /\ p1 = p2

\* C2: compute_shared_secret returns a j-invariant only if the pairing check
\* on the received key succeeded; when it fails the call raises, builds no
\* isogeny and returns no value.
C2_NoSecretFromUnverified ==
    \A X \in Parties :
        Done(X) =>
            /\ res[X].status = "returned" => PairingCheck(params, X, recv[X])
            /\ ~PairingCheck(params, X, recv[X]) =>
                  /\ res[X].status = "raised"
                  /\ ~res[X].psi
                  /\ res[X].value = NoObject

\* a call ended in the pairing mismatch
C2_Witness ==
    \E X \in Parties :
        Done(X) /\ res[X].status = "raised" /\ res[X].err = "AssertionError"

\* C3: the pairing check succeeds on every honestly generated public key,
\* whichever square root of 1 the peer drew as its mask.
C3_MaskIndependentAcceptance ==
    \A X \in Parties :
        (Honest(X) /\ Done(X)) =>
            /\ res[X].p1.err = None
            /\ res[X].p1 = res[X].p2
            /\ res[X].err # "AssertionError"

\* an honest key masked by a root other than 1 and -1 was accepted
C3_Witness ==
    \E X \in Parties :
        /\ Honest(X) /\ Done(X) /\ res[X].status = "returned"
        /\ sk[Other(X)][1] \notin {1, OwnDegree(params, X) - 1}
        /\ (sk[Other(X)][1] * sk[Other(X)][1]) % OwnDegree(params, X) = 1

\* C4 as claimed: the check compares Pairing(R, S; peerDegree) with
\* Pairing(P', Q'; peerDegree) ^ ownDegree on the peer's basis (P', Q').
C4_PeerDegreeCheck ==
    \A X \in Parties :
        Done(X) =>
            /\ res[X].p1 = weil_pairing(recv[X][2], recv[X][3], PeerDegree(params, X))
            /\ res[X].p2 = pairing_pow(weil_pairing(PeerBasis(params, X)[1],
                                                    PeerBasis(params, X)[2],
                                                    PeerDegree(params, X)),
                                       OwnDegree(params, X), params.E0.n)

\* C4 as amended: the check compares Pairing(R, S; ownDegree) with
\* Pairing(P, Q; ownDegree) ^ peerDegree on the party's own unmasked basis
\* (P, Q) (for party A: degree A, points PA, QA, exponent B), and the call
\* ends in the pairing mismatch exactly when the two values differ.
C4_OwnDegreeCheck ==
    \A X \in Parties :
        Done(X) =>
            /\ res[X].p1 = weil_pairing(recv[X][2], recv[X][3], OwnDegree(params, X))
            /\ res[X].p2 = pairing_pow(weil_pairing(OwnBasis(params, X)[1],
                                                    OwnBasis(params, X)[2],
                                                    OwnDegree(params, X)),
                                       PeerDegree(params, X), params.E0.n)
            /\ res[X].err = "AssertionError" <=> res[X].p1 # res[X].p2

\* both parties ran the check, one accepting and one rejecting
C4_Witness ==
    /\ Done("A") /\ Done("B")
    /\ \E X \in Parties :
         res[X].status = "returned" /\ res[Other(X)].err = "AssertionError"

\* the coordinate pair of P - Q
Difference(P, Q) ==
    << (P.xy[1] - Q.xy[1]) % P.E.n, (P.xy[2] - Q.xy[2]) % P.E.n >>

\* C5 as claimed: a public key with one component replaced makes the
\* receiver's compute_shared_secret fail with the pairing mismatch, and no
\* secret different from the sender's is returned.
C5_TamperDetected ==
    \A X \in Parties :
        (TamperedAt(X) /\ Done(X)) =>
            /\ res[X].status = "raised"
            /\ res[X].err = "AssertionError"

\* C5 as amended: when one image point is replaced by another point of the
\* receiver's torsion on the same curve, the call fails with the pairing
\* mismatch exactly when the replacement differs from the original by a point
\* outside the cyclic group of the other image point, and otherwise returns a
\* secret; when the codomain curve is replaced, the pairing check passes.
C5_TamperOutcome ==
    \A X \in Parties :
        (TamperedAt(X) /\ Done(X)) =>
            LET sent == pk[Other(X)]
                got == recv[X]
                mismatch == res[X].status = "raised" /\ res[X].err = "AssertionError"
            IN /\ got[1] # sent[1] => res[X].p1 = res[X].p2 /\ ~mismatch
               /\ got[2] # sent[2] =>
                     /\ mismatch <=> Difference(got[2], sent[2])
                                        \notin Cyclic(sent[3].xy, sent[3].E.n)
                     /\ ~mismatch => res[X].status = "returned"
               /\ got[3] # sent[3] =>
                     /\ mismatch <=> Difference(got[3], sent[3])
                                        \notin Cyclic(sent[2].xy, sent[2].E.n)
                     /\ ~mismatch => res[X].status = "returned"

\* a replaced image point was accepted and the secret returned differs from
\* the sender's
C5_Witness ==
    \E X \in Parties :
        /\ TamperedAt(X) /\ Done(X) /\ Done(Other(X))
        /\ recv[X][1] = pk[Other(X)][1]
        /\ res[X].status = "returned"
        /\ res[Other(X)].status = "returned"
        /\ res[X].value # res[Other(X)].value

\* C8: a private key is (mask, scalar) with mask a square root of 1 modulo
\* the peer's degree and scalar in [0, ownDegree); generating it changes
\* neither the parameter object nor anything else the parties hold.
C8_PrivateKeyShape ==
    /\ [](\A X \in Parties :
            sk[X] # NoKey =>
                /\ Len(sk[X]) = 2
                /\ sk[X][1] \in 0..(PeerDegree(params, X) - 1)
                /\ (sk[X][1] * sk[X][1]) % PeerDegree(params, X) = 1
                /\ sk[X][2] \in 0..(OwnDegree(params, X) - 1))
    /\ [][sk' # sk => /\ params' = params
                       /\ pk' = pk /\ recv' = recv /\ res' = res]_vars

\* both parties hold a private key, one with a non-trivial mask and the
\* largest scalar
C8_Witness ==
    /\ sk["A"] # NoKey /\ sk["B"] # NoKey
    /\ sk["A"][1] \notin {1, params.B - 1}
    /\ sk["A"][2] = params.A - 1

=============================================================================
